---- MODULE Spec2Model ----
(***************************************************************************)
(* Admission probability and counseling-strategy engine of MedPath.        *)
(*                                                                         *)
(* The module models                                                       *)
(*   - EnhancedPredictionAlgorithm (backend/enhanced_prediction_algorithm) *)
(*     as a state machine over the object's fields data and cr_columns,    *)
(*     with the public methods load_data and predict_colleges as actions;  *)
(*   - calculate_round_probability ("estimate") as a pure operator that a  *)
(*     separate specification applies to bounded inputs;                   *)
(*   - EnhancedPredictionSystem.predict_admission_rounds                   *)
(*     (models/scripts/07_enhanced_prediction_system) as a pure operator   *)
(*     applied by a third specification.                                   *)
(*                                                                         *)
(* Arithmetic.  Probabilities and scores are fixed-point integers in units *)
(* of 1/PScale (PScale = 10^8), which represents every coefficient of the  *)
(* source exactly (0.0000045 = 450 units, 0.5 * p is an integer for every  *)
(* p the estimate produces).  The model is exact decimal arithmetic; the   *)
(* rounding error of IEEE doubles (at most one unit in the last place) is  *)
(* not represented.                                                        *)
(***************************************************************************)
EXTENDS Integers, Sequences, FiniteSets, TLC

VARIABLES
    data,        \* self.data: None or the table (sequence of rows)
    cr_columns,  \* self.cr_columns: sequence of closing-rank column names
    loadStatus,  \* history: what the last load_data call returned
    result,      \* the value the last predict_colleges call returned
    est,         \* inputs and outputs of the last two estimate calls
    rounds07,    \* input and output of the last predict_admission_rounds
    conc,        \* threads calling predict_colleges on one engine concurrently
    api,         \* the last two answers of the API's basic prediction path
    plan,        \* input and output of the last round-engine computation
    scored,      \* input and output of the last recommendation-score call
    ranked,      \* a prediction list and what the end of predict_colleges makes of it
    dist,        \* input and output of the 07 system's admission probability
    limiter      \* RateLimiter.requests, the clock, and the calls in progress

vars ==
    <<data, cr_columns, loadStatus, result, est, rounds07, conc, api, plan, scored,
      ranked, dist, limiter>>

\* the variables of the one-shot specifications added to the engine's
newVars == <<conc, api, plan, scored>>

engineVars == <<data, cr_columns, loadStatus, result>>

\* the variables of the specifications of the list end, the 07 probability
\* and the rate limiter
lateVars == <<ranked, dist, limiter>>

(***************************************************************************)
(* Fixed point                                                             *)
(***************************************************************************)
PScale == 10 ^ 8

\* n thousandths, in units of 1/PScale
Milli(n) == n * (10 ^ 5)

Abs(x) == IF x < 0 THEN -x ELSE x

Min(a, b) == IF a <= b THEN a ELSE b

Max(a, b) == IF a >= b THEN a ELSE b

(***************************************************************************)
(* Table cells.  A cell of the data frame is a number, NaN, or text; text  *)
(* that pd.to_numeric can parse carries the number it parses to.           *)
(***************************************************************************)
Num(n) == [k |-> "num", v |-> n]

NaN == [k |-> "nan", v |-> 0]

Txt == [k |-> "txt", v |-> 0]

TxtNum(n) == [k |-> "txtnum", v |-> n]

\* pd.isna / pd.notna
isna(c) == c.k = "nan"

notna(c) == ~isna(c)

\* a comparison of the cell with a number raises TypeError when it is text
IsText(c) == c.k \in {"txt", "txtnum"}

\* pd.to_numeric(..., errors='coerce'), after '-' was replaced by NaN
to_numeric(c) ==
    CASE c.k = "num" -> c
      [] c.k = "nan" -> c
      [] c.k = "txt" -> NaN
      [] c.k = "txtnum" -> Num(c.v)

(***************************************************************************)
(* calculate_round_probability (estimate)                                  *)
(***************************************************************************)
HighZoneDiff == 10000

MediumZoneDiff == 20000

LowZoneDiff == 40000

ProbCeil == Milli(950)

ProbMid == Milli(500)

ProbLow == Milli(100)

ProbFloor == Milli(10)

\* 0.000045, 0.00004 and 0.0000045 in units of 1/PScale
HighSlope == 4500

MediumSlope == 4000

LowSlope == 450

\* the three linear pieces, before the clamp (source lines 81, 84, 87)
HighSegment(diff) == ProbCeil - HighSlope * diff

\* a plausible slip: the medium zone starts from 0.55 instead of 0.5, so
\* the curve jumps upwards when it crosses diff = 10,000
MediumSegment_jump(diff) == Milli(550) - MediumSlope * (diff - HighZoneDiff)

MediumSegment(diff) == ProbMid - MediumSlope * (diff - HighZoneDiff)

\* a plausible slip: slope 0.000004 instead of 0.0000045, so the low zone
\* ends at 0.02 instead of 0.01
LowSegment_slope(diff) == ProbLow - 400 * (diff - MediumZoneDiff)

LowSegment(diff) == ProbLow - LowSlope * (diff - MediumZoneDiff)

\* a plausible slip: the flat zone is forgotten (the low zone's line is
\* used for every diff above 20,000) and the clamp is to [0, 1]
calculate_round_probability_noflat(user_rank, closing_rank) ==
    IF isna(closing_rank) \/ closing_rank.v = 0
    THEN 0
    ELSE LET diff == Abs(user_rank - closing_rank.v)
             probability ==
                 IF diff <= HighZoneDiff THEN HighSegment(diff)
                 ELSE IF diff <= MediumZoneDiff THEN MediumSegment(diff)
                 ELSE LowSegment(diff)
         IN  Max(0, Min(PScale, probability))

\* a plausible slip: the difference is taken with its sign, so that a
\* rank better than the closing rank counts as distance below zero
calculate_round_probability_signed(user_rank, closing_rank) ==
    IF isna(closing_rank) \/ closing_rank.v = 0
    THEN 0
    ELSE LET diff == user_rank - closing_rank.v
             probability ==
                 IF diff <= HighZoneDiff THEN HighSegment(diff)
                 ELSE IF diff <= MediumZoneDiff THEN MediumSegment(diff)
                 ELSE IF diff <= LowZoneDiff THEN LowSegment(diff)
                 ELSE ProbFloor
         IN  Max(ProbFloor, Min(ProbCeil, probability))

calculate_round_probability(user_rank, closing_rank) ==
    IF isna(closing_rank) \/ closing_rank.v = 0
    THEN 0
    ELSE LET diff == Abs(user_rank - closing_rank.v)
             probability ==
                 IF diff <= HighZoneDiff THEN HighSegment(diff)
                 ELSE IF diff <= MediumZoneDiff THEN MediumSegment(diff)
                 ELSE IF diff <= LowZoneDiff THEN LowSegment(diff)
                 ELSE ProbFloor
         IN  Max(ProbFloor, Min(ProbCeil, probability))

(***************************************************************************)
(* Inputs of the estimate specification: candidate ranks on both sides of  *)
(* every segment boundary of the closing ranks below.                      *)
(***************************************************************************)
EstRanks ==
    {1, 2, 5000, 14999, 15000, 15001, 24999, 25000, 25001, 34999, 35000,
     35001, 44999, 45000, 45001, 65000, 65001, 70000, 75000, 110000, 115000,
     200000}

EstClosingRanks == {1, 25000, 35000, 70000, 200000}

NoEstimate == [r1 |-> 0, r2 |-> 0, c |-> 0, p1 |-> 0, p2 |-> 0]

\* two calls of estimate against the same closing rank, made once
Estimate(r1, r2, c) ==
    /\ est = NoEstimate
    /\ est' = [r1 |-> r1, r2 |-> r2, c |-> c,
               p1 |-> calculate_round_probability(r1, Num(c)),
               p2 |-> calculate_round_probability(r2, Num(c))]
    /\ UNCHANGED <<engineVars, rounds07, newVars, lateVars>>

(***************************************************************************)
(* Strings.  A string is a sequence of characters, so that str.upper and   *)
(* str.contains are computed, not assumed.  A string cell may be missing.  *)
(***************************************************************************)
Str(s) == [na |-> FALSE, s |-> s]

NaStr == [na |-> TRUE, s |-> <<>>]

LowerCase == {"a", "d", "e", "g", "i", "m", "n", "o", "p", "r", "s", "t", "v"}

UpperOf ==
    [c \in LowerCase |->
        CASE c = "a" -> "A" [] c = "d" -> "D" [] c = "e" -> "E"
          [] c = "g" -> "G" [] c = "i" -> "I" [] c = "m" -> "M"
          [] c = "n" -> "N" [] c = "o" -> "O" [] c = "p" -> "P"
          [] c = "r" -> "R" [] c = "s" -> "S" [] c = "t" -> "T"
          [] c = "v" -> "V"]

\* str.upper()
upper(s) == [i \in 1..Len(s) |-> IF s[i] \in LowerCase THEN UpperOf[s[i]] ELSE s[i]]

\* needle in hay (Python's in, and str.contains for a needle without regex
\* metacharacters)
contains(hay, needle) ==
    \E i \in 0..(Len(hay) - Len(needle)) :
        \A j \in 1..Len(needle) : hay[i + j] = needle[j]

sGovt == <<"G", "o", "v", "t">>

sGovernment == <<"G", "o", "v", "e", "r", "n", "m", "e", "n", "t">>

sPrivate == <<"P", "r", "i", "v", "a", "t", "e">>

sAIQ == <<"A", "I", "Q">>

sNan == <<"n", "a", "n">>

sGEN == <<"G", "E", "N">>

sOBC == <<"O", "B", "C">>

sAP == <<"A", "P">>

sUP == <<"U", "P">>

sMD == <<"M", "D">>

\* str(cell) of a string column: the text, or 'nan' for a missing value
str(c) == IF c.na THEN sNan ELSE c.s

(***************************************************************************)
(* The CSV.  Columns named "CR <year> <round>" hold closing ranks; the     *)
(* last one has a round that int() cannot parse.                           *)
(***************************************************************************)
Columns ==
    <<"Institute", "Category", "State", "Course", "Quota", "Fee",
      "Stipend Year 1", "Bond Years", "CR 2023 1", "CR 2023 2", "CR 2024 1",
      "CR 2024 R2">>

\* col.startswith('CR ')
StartsWithCR(col) == col \in {"CR 2023 1", "CR 2023 2", "CR 2024 1", "CR 2024 R2"}

\* col.split() followed by int(parts[1]), int(parts[2]); ok is FALSE when
\* there are fewer than three parts or int() raises ValueError
SplitColumn(col) ==
    CASE col = "CR 2023 1" -> [ok |-> TRUE, year |-> 2023, round |-> 1]
      [] col = "CR 2023 2" -> [ok |-> TRUE, year |-> 2023, round |-> 2]
      [] col = "CR 2024 1" -> [ok |-> TRUE, year |-> 2024, round |-> 1]
      [] OTHER -> [ok |-> FALSE, year |-> 0, round |-> 0]

CRNames == SelectSeq(Columns, StartsWithCR)

\* a raw row as pd.read_csv delivers it: closing ranks, fee, stipend and
\* bond years are text ('12345', '-', a currency string) or blank
RawRow(inst, cat, st, quota, crs, fee, stip, bond) ==
    [Institute |-> inst, Category |-> cat, State |-> st, Course |-> Str(sMD),
     Quota |-> quota, cr |-> crs, Fee |-> fee, Stipend |-> stip, Bond |-> bond]

RowCatalog ==
    << \* several years and rounds of history, cheap, government
       RawRow(1, Str(sGEN), Str(sAP), Str(sGovt),
              <<TxtNum(25000), TxtNum(30000), TxtNum(27000), TxtNum(20000)>>,
              TxtNum(50000), TxtNum(50000), TxtNum(0)),
       \* a single observation, far away for most candidates
       RawRow(2, Str(sOBC), Str(sUP), Str(sPrivate),
              <<Txt, TxtNum(70000), NaN, NaN>>,
              TxtNum(900000), Txt, TxtNum(6)),
       \* no observation at all
       RawRow(3, Str(sGEN), Str(sAP), Str(sAIQ),
              <<Txt, NaN, TxtNum(0), NaN>>,
              NaN, NaN, NaN),
       \* a single observation, state and quota missing
       RawRow(4, Str(sGEN), NaStr, NaStr,
              <<TxtNum(35000), NaN, NaN, NaN>>,
              TxtNum(300000), TxtNum(0), TxtNum(2)),
       \* a single observation, no fee known
       RawRow(5, Str(sOBC), Str(sAP), Str(sGovt),
              <<TxtNum(0), NaN, TxtNum(110000), NaN>>,
              NaN, NaN, TxtNum(3)) >>

MaxRows == 2

\* the tables a CSV file may hold: up to MaxRows distinct rows, in any order
Tables ==
    { t \in UNION { [1..n -> 1..Len(RowCatalog)] : n \in 0..MaxRows } :
        \A i, j \in DOMAIN t : i # j => t[i] # t[j] }

ReadCsv(t) == [i \in DOMAIN t |-> RowCatalog[t[i]]]

None == [present |-> FALSE, rows |-> <<>>]

DataFrame(rows) == [present |-> TRUE, rows |-> rows]

(***************************************************************************)
(* load_data.  failAt names the statement that raises (the except clause   *)
(* turns every exception into "return False"); "none" is a successful run. *)
(* Everything assigned to self.data and self.cr_columns before the raise   *)
(* stays assigned.                                                         *)
(***************************************************************************)
FailPoints == {"read", "cr", "bond", "fee", "stipend", "penalty", "none"}

CleanCR(rows) ==
    [i \in DOMAIN rows |->
        [rows[i] EXCEPT !.cr = [j \in DOMAIN rows[i].cr |-> to_numeric(rows[i].cr[j])]]]

CleanBond(rows) == [i \in DOMAIN rows |-> [rows[i] EXCEPT !.Bond = to_numeric(@)]]

CleanFee(rows) == [i \in DOMAIN rows |-> [rows[i] EXCEPT !.Fee = to_numeric(@)]]

CleanStipend(rows) == [i \in DOMAIN rows |-> [rows[i] EXCEPT !.Stipend = to_numeric(@)]]

\* the values of (self.data, self.cr_columns) after the call, and what the
\* call returns
load_data(self_data, self_cr_columns, table, failAt) ==
    LET raw == ReadCsv(table)
        s1 == CleanCR(raw)
        s2 == CleanBond(s1)
        s3 == CleanFee(s2)
        s4 == CleanStipend(s3)
    IN  CASE failAt = "read" ->
               [data |-> self_data, cr_columns |-> self_cr_columns, ok |-> FALSE]
          [] failAt = "cr" ->
               [data |-> DataFrame(raw), cr_columns |-> CRNames, ok |-> FALSE]
          [] failAt = "bond" ->
               [data |-> DataFrame(s1), cr_columns |-> CRNames, ok |-> FALSE]
          [] failAt = "fee" ->
               [data |-> DataFrame(s2), cr_columns |-> CRNames, ok |-> FALSE]
          [] failAt = "stipend" ->
               [data |-> DataFrame(s3), cr_columns |-> CRNames, ok |-> FALSE]
          [] failAt = "penalty" ->
               [data |-> DataFrame(s4), cr_columns |-> CRNames, ok |-> FALSE]
          [] failAt = "none" ->
               [data |-> DataFrame(s4), cr_columns |-> CRNames, ok |-> TRUE]

(***************************************************************************)
(* extract_round_data                                                      *)
(***************************************************************************)
ColumnIndex(col) == CHOOSE j \in 1..Len(CRNames) : CRNames[j] = col

\* row[col]
CellOf(row, col) == row.cr[ColumnIndex(col)]

\* round_key f"{year}_R{round_num}"
RoundKey(col) == <<SplitColumn(col).year, SplitColumn(col).round>>

\* raised: "row[col] > 0" on a text cell raises TypeError, which only the
\* caller's handler catches.  closing_ranks: the dictionary, in insertion
\* order, of the columns that hold a positive number and whose name parses
extract_round_data(row, self_cr_columns) ==
    LET Observed(col) ==
            /\ notna(CellOf(row, col))
            /\ CellOf(row, col).v > 0
            /\ SplitColumn(col).ok
        cols == SelectSeq(self_cr_columns, Observed)
    IN  [raised |-> \E j \in DOMAIN self_cr_columns : IsText(CellOf(row, self_cr_columns[j])),
         closing_ranks |->
            [j \in DOMAIN cols |->
                [key |-> RoundKey(cols[j]), year |-> SplitColumn(cols[j]).year,
                 closing_rank |-> CellOf(row, cols[j]).v]]]

(***************************************************************************)
(* calculate_admission_probabilities                                       *)
(***************************************************************************)
NoRound == <<0, 0>>

FallbackProbability == Milli(50)

FallbackMargin == 5000

SeqMax(ps) == CHOOSE m \in {ps[j] : j \in DOMAIN ps} : \A j \in DOMAIN ps : ps[j] <= m

\* max(d, key=d.get): the first key, in insertion order, with the maximum
FirstMaxIndex(ps) ==
    CHOOSE j \in DOMAIN ps :
        /\ ps[j] = SeqMax(ps)
        /\ \A i \in DOMAIN ps : i < j => ps[i] # SeqMax(ps)

\* a plausible slip: the overall probability is the minimum over the rounds
calculate_admission_probabilities_min(user_rank, closing_ranks) ==
    IF closing_ranks = <<>>
    THEN [round_probabilities |-> <<>>, best_round |-> NoRound,
          overall_probability |-> FallbackProbability,
          predicted_closing_rank |-> user_rank + FallbackMargin]
    ELSE LET ps == [j \in DOMAIN closing_ranks |->
                       calculate_round_probability(user_rank, Num(closing_ranks[j].closing_rank))]
             b == FirstMaxIndex(ps)
             lowest == CHOOSE m \in {ps[j] : j \in DOMAIN ps} :
                           \A j \in DOMAIN ps : ps[j] >= m
         IN  [round_probabilities |->
                 [j \in DOMAIN ps |-> [key |-> closing_ranks[j].key, probability |-> ps[j]]],
              best_round |-> closing_ranks[b].key,
              overall_probability |-> lowest,
              predicted_closing_rank |-> closing_ranks[b].closing_rank]

\* a plausible slip: the fallback copies the candidate's rank and reports a
\* neutral 0.5
calculate_admission_probabilities_fallback(user_rank, closing_ranks) ==
    IF closing_ranks = <<>>
    THEN [round_probabilities |-> <<>>, best_round |-> NoRound,
          overall_probability |-> Milli(500),
          predicted_closing_rank |-> user_rank]
    ELSE LET ps == [j \in DOMAIN closing_ranks |->
                       calculate_round_probability(user_rank, Num(closing_ranks[j].closing_rank))]
             b == FirstMaxIndex(ps)
         IN  [round_probabilities |->
                 [j \in DOMAIN ps |-> [key |-> closing_ranks[j].key, probability |-> ps[j]]],
              best_round |-> closing_ranks[b].key,
              overall_probability |-> SeqMax(ps),
              predicted_closing_rank |-> closing_ranks[b].closing_rank]

calculate_admission_probabilities(user_rank, closing_ranks) ==
    IF closing_ranks = <<>>
    THEN [round_probabilities |-> <<>>, best_round |-> NoRound,
          overall_probability |-> FallbackProbability,
          predicted_closing_rank |-> user_rank + FallbackMargin]
    ELSE LET ps == [j \in DOMAIN closing_ranks |->
                       calculate_round_probability(user_rank, Num(closing_ranks[j].closing_rank))]
             b == FirstMaxIndex(ps)
         IN  [round_probabilities |->
                 [j \in DOMAIN ps |-> [key |-> closing_ranks[j].key, probability |-> ps[j]]],
              best_round |-> closing_ranks[b].key,
              overall_probability |-> SeqMax(ps),
              predicted_closing_rank |-> closing_ranks[b].closing_rank]

(***************************************************************************)
(* round(x, 3): x is given as floor part fx (units of 1/PScale) and a flag *)
(* telling whether the exact value lies strictly above fx.  Ties go to the *)
(* even thousandth.                                                        *)
(***************************************************************************)
Round3(fx, above) ==
    LET unit == Milli(1)
        lo == (fx \div unit) * unit
        rest == fx - lo
        up == \/ 2 * rest > unit
              \/ 2 * rest = unit /\ above
              \/ 2 * rest = unit /\ ~above /\ (fx \div unit) % 2 = 1
    IN  IF up THEN lo + unit ELSE lo

(***************************************************************************)
(* calculate_enhanced_recommendation_score                                 *)
(***************************************************************************)
ProbabilityWeightDivisor == 2

CompetitivenessWeight == Milli(150)

LowFee == 100000

MediumFee == 500000

ShortBond == 2

LongBond == 5

\* (predicted_rank - user_rank) / predicted_rank * 0.15, for
\* 0 <= predicted_rank - user_rank < predicted_rank: floor in units of
\* 1/PScale by long division, and whether a remainder is left
CompetitivenessBonus(user_rank, predicted_rank) ==
    LET n == predicted_rank - user_rank
        a == 150 * n
        q1 == a \div predicted_rank
        r1 == a % predicted_rank
        q2 == (r1 * 1000) \div predicted_rank
        r2 == (r1 * 1000) % predicted_rank
        q3 == (r2 * 100) \div predicted_rank
        r3 == (r2 * 100) % predicted_rank
    IN  [floor |-> q1 * (10 ^ 5) + q2 * 100 + q3, above |-> r3 # 0]

\* a plausible slip: the final max(0.0, min(1.0, score)) is left out
calculate_enhanced_recommendation_score_noclamp(row, user_rank, admission_data, preferred_state) ==
    LET predicted_rank == admission_data.predicted_closing_rank
        better == user_rank <= predicted_rank
        capped == predicted_rank > 0 /\ predicted_rank - user_rank >= predicted_rank
        bonus == IF ~better THEN [floor |-> 0, above |-> FALSE]
                 \* min(0.15, ...); a predicted rank of 0 raises (below), and
                 \* a negative one needs user_rank < -FallbackMargin, which
                 \* is outside the inputs of this model
                 ELSE IF predicted_rank <= 0 \/ capped
                      THEN [floor |-> CompetitivenessWeight, above |-> FALSE]
                 ELSE CompetitivenessBonus(user_rank, predicted_rank)
        quota == str(row.Quota)
        institute == IF contains(quota, sGovt) \/ contains(quota, sGovernment)
                     THEN Milli(100)
                     ELSE IF contains(quota, sPrivate) THEN Milli(50) ELSE 0
        fee == IF notna(row.Fee)
               THEN IF row.Fee.v <= LowFee THEN Milli(100)
                    ELSE IF row.Fee.v <= MediumFee THEN Milli(50) ELSE 0
               ELSE Milli(50)
        stipend == IF notna(row.Stipend) /\ row.Stipend.v > 0 THEN Milli(50) ELSE 0
        bond == IF notna(row.Bond)
                THEN IF row.Bond.v = 0 THEN Milli(50)
                     ELSE IF row.Bond.v <= ShortBond THEN Milli(25)
                     ELSE IF row.Bond.v > LongBond THEN -Milli(25) ELSE 0
                ELSE 0
        state == IF ~row.State.na /\ upper(row.State.s) = upper(preferred_state)
                 THEN Milli(50) ELSE 0
        score == admission_data.overall_probability \div ProbabilityWeightDivisor
                 + bonus.floor + institute + fee + stipend + bond + state
    IN  [raised |-> \/ better /\ predicted_rank = 0
                    \/ IsText(row.Fee) \/ IsText(row.Stipend) \/ IsText(row.Bond)
                    \/ row.State.na,
         score |-> score,
         above |-> bonus.above /\ 0 <= score /\ score < PScale]

\* raised: ZeroDivisionError (predicted rank 0), TypeError (a comparison
\* with a text cell) or AttributeError (State is NaN, which has no upper())
calculate_enhanced_recommendation_score(row, user_rank, admission_data, preferred_state) ==
    LET predicted_rank == admission_data.predicted_closing_rank
        better == user_rank <= predicted_rank
        capped == predicted_rank > 0 /\ predicted_rank - user_rank >= predicted_rank
        bonus == IF ~better THEN [floor |-> 0, above |-> FALSE]
                 \* min(0.15, ...); a predicted rank of 0 raises (below), and
                 \* a negative one needs user_rank < -FallbackMargin, which
                 \* is outside the inputs of this model
                 ELSE IF predicted_rank <= 0 \/ capped
                      THEN [floor |-> CompetitivenessWeight, above |-> FALSE]
                 ELSE CompetitivenessBonus(user_rank, predicted_rank)
        quota == str(row.Quota)
        institute == IF contains(quota, sGovt) \/ contains(quota, sGovernment)
                     THEN Milli(100)
                     ELSE IF contains(quota, sPrivate) THEN Milli(50) ELSE 0
        fee == IF notna(row.Fee)
               THEN IF row.Fee.v <= LowFee THEN Milli(100)
                    ELSE IF row.Fee.v <= MediumFee THEN Milli(50) ELSE 0
               ELSE Milli(50)
        stipend == IF notna(row.Stipend) /\ row.Stipend.v > 0 THEN Milli(50) ELSE 0
        bond == IF notna(row.Bond)
                THEN IF row.Bond.v = 0 THEN Milli(50)
                     ELSE IF row.Bond.v <= ShortBond THEN Milli(25)
                     ELSE IF row.Bond.v > LongBond THEN -Milli(25) ELSE 0
                ELSE 0
        state == IF ~row.State.na /\ upper(row.State.s) = upper(preferred_state)
                 THEN Milli(50) ELSE 0
        score == admission_data.overall_probability \div ProbabilityWeightDivisor
                 + bonus.floor + institute + fee + stipend + bond + state
    IN  [raised |-> \/ better /\ predicted_rank = 0
                    \/ IsText(row.Fee) \/ IsText(row.Stipend) \/ IsText(row.Bond)
                    \/ row.State.na,
         score |-> Max(0, Min(PScale, score)),
         above |-> bonus.above /\ 0 <= score /\ score < PScale]

(***************************************************************************)
(* predict_colleges                                                        *)
(***************************************************************************)
\* a plausible slip: the cut-off is the floor of estimate, 0.01
MinProbabilityFloor == Milli(10)

MinProbability == Milli(50)

ConfidenceBoost == Milli(100)

LowerBoundMargin == 5000

UpperBoundMargin == 10000

max_predictions == 50

\* one of the four filters: skipped when the query string is empty,
\* otherwise column.str.upper().str.contains(value.upper(), na=False)
Matches(cell, value) ==
    value = <<>> \/ (~cell.na /\ contains(upper(cell.s), upper(value)))

RowMatches(row, q) ==
    /\ Matches(row.Category, q.category)
    /\ Matches(row.State, q.state)
    /\ Matches(row.Course, q.course)
    /\ Matches(row.Quota, q.quota)

\* filtered_data
FilterRows(rows, q) == SelectSeq(rows, LAMBDA row : RowMatches(row, q))

\* re.compile(pattern) raises re.error.  str.contains takes its argument as
\* a regular expression; of the characters of this model only "(" and ")"
\* are special, and a pattern with an unbalanced one does not compile
RECURSIVE Unbalanced(_, _, _)
Unbalanced(pattern, i, depth) ==
    IF depth < 0 THEN TRUE
    ELSE IF i > Len(pattern) THEN depth # 0
    ELSE Unbalanced(pattern, i + 1,
                    depth + (IF pattern[i] = "(" THEN 1
                             ELSE IF pattern[i] = ")" THEN -1 ELSE 0))

re_compile_raises(pattern) == Unbalanced(pattern, 1, 0)

\* a column pd.read_csv found no text in is float64, and the .str accessor
\* of a float64 column raises AttributeError
IsFloatColumn(rows, column) ==
    rows # <<>> /\ \A i \in DOMAIN rows : rows[i][column].na

\* lines 238-251 raise: a filter that is applied (its query string is not
\* empty) meets a float64 column or a string that is not a regular
\* expression
FilterRaises(rows, q) ==
    \E f \in {<<"Category", q.category>>, <<"State", q.state>>,
              <<"Course", q.course>>, <<"Quota", q.quota>>} :
        /\ f[2] # <<>>
        /\ IsFloatColumn(rows, f[1]) \/ re_compile_raises(upper(f[2]))

\* the prediction entry of one row
PredictionEntry(row, closing_ranks, admission_data, score) ==
    [institute |-> row.Institute,
     overall_probability |-> admission_data.overall_probability,
     admission_probability |-> Round3(admission_data.overall_probability, FALSE),
     confidence_score |-> Min(ProbCeil, admission_data.overall_probability + ConfidenceBoost),
     predicted_closing_rank |-> admission_data.predicted_closing_rank,
     most_likely_round |-> admission_data.best_round,
     round_probabilities |-> admission_data.round_probabilities,
     lower_bound |-> Max(1, admission_data.predicted_closing_rank - LowerBoundMargin),
     upper_bound |-> admission_data.predicted_closing_rank + UpperBoundMargin,
     data_years |-> Cardinality({closing_ranks[j].year : j \in DOMAIN closing_ranks}),
     recommendation_score |-> Round3(score.score, score.above)]

\* the for loop over filtered_data.iterrows(), from row i on; acc carries
\* the predictions so far and the numbers of probability and score
\* computations made; an exception ends the loop
RECURSIVE PredictLoop(_, _, _, _, _)
PredictLoop(rows, i, self_cr_columns, q, acc) ==
    IF i > Len(rows)
    THEN acc
    ELSE LET row == rows[i]
             round_data == extract_round_data(row, self_cr_columns)
             admission_data ==
                 calculate_admission_probabilities(q.air, round_data.closing_ranks)
             score == calculate_enhanced_recommendation_score(
                          row, q.air, admission_data, q.state)
         IN  IF round_data.raised
             THEN [acc EXCEPT !.raised = TRUE]
             ELSE IF admission_data.overall_probability < MinProbability
             THEN PredictLoop(rows, i + 1, self_cr_columns, q,
                              [acc EXCEPT !.nProb = @ + 1])
             ELSE IF score.raised
             THEN [acc EXCEPT !.raised = TRUE, !.nProb = @ + 1]
             ELSE PredictLoop(rows, i + 1, self_cr_columns, q,
                      [acc EXCEPT !.nProb = @ + 1, !.nScore = @ + 1,
                                  !.predictions = Append(@,
                                      PredictionEntry(row, round_data.closing_ranks,
                                                      admission_data, score))])

\* list.sort(key=recommendation_score, reverse=True): stable, so entries
\* with equal scores keep their order
RECURSIVE SortByScore(_)
SortByScore(ps) ==
    IF ps = <<>>
    THEN <<>>
    ELSE LET sorted == SortByScore(SubSeq(ps, 1, Len(ps) - 1))
             x == ps[Len(ps)]
             k == Cardinality({j \in DOMAIN sorted :
                                  sorted[j].recommendation_score >= x.recommendation_score})
         IN  SubSeq(sorted, 1, k) \o <<x>> \o SubSeq(sorted, k + 1, Len(sorted))

\* predictions[:max_predictions]
Truncate(ps) == SubSeq(ps, 1, Min(Len(ps), max_predictions))

\* a plausible slip: the list is cut before it is sorted
TopPredictionsCutFirst(ps) == SortByScore(Truncate(ps))

\* lines 322-327: predictions.sort(...) and predictions[:max_predictions]
TopPredictions(ps) == Truncate(SortByScore(ps))

NoResult ==
    [kind |-> "none", error |-> "", predictions |-> <<>>, total_colleges_found |-> 0,
     message |-> "", nProb |-> 0, nScore |-> 0,
     query |-> [category |-> <<>>, state |-> <<>>, course |-> <<>>, quota |-> <<>>, air |-> 0]]

\* the part of predict_colleges after the data is there (the try block)
PredictFrom(self_data, self_cr_columns, q) ==
    LET filtered_data == FilterRows(self_data.rows, q)
        loop == PredictLoop(filtered_data, 1, self_cr_columns, q,
                            [raised |-> FALSE, predictions |-> <<>>,
                             nProb |-> 0, nScore |-> 0])
        predictions == TopPredictions(loop.predictions)
    IN  IF FilterRaises(self_data.rows, q)
        THEN [NoResult EXCEPT !.kind = "error", !.error = "Prediction failed", !.query = q]
        ELSE IF filtered_data = <<>>
        THEN [NoResult EXCEPT !.kind = "empty", !.query = q,
                              !.message = "No colleges found matching your criteria"]
        ELSE IF loop.raised
        THEN [NoResult EXCEPT !.kind = "error", !.error = "Prediction failed", !.query = q,
                              !.nProb = loop.nProb, !.nScore = loop.nScore]
        ELSE [NoResult EXCEPT !.kind = "ok", !.query = q,
                              !.predictions = predictions,
                              !.total_colleges_found = Len(predictions),
                              !.nProb = loop.nProb, !.nScore = loop.nScore]

(***************************************************************************)
(* The engine as a state machine.  Calls are sequential: a call is made    *)
(* when the caller holds no result, and ReturnResult is the caller taking  *)
(* the result.  load_data is called where the repository calls it: on an   *)
(* engine whose data is still None (startup_event on a fresh engine, and   *)
(* predict_colleges lazily).                                               *)
(***************************************************************************)
EngineRanks == {-5000, 0, 1, 25000, 30000, 65000, 120000, 200001}

QueryCategories == {<<>>, <<"g", "e", "n">>, sOBC}

QueryStates == {<<>>, <<"a", "p">>, <<"P">>}

QueryCourses == {<<>>, <<"M", "S">>, <<"m", "d", "(">>}

QueryQuotas == {<<>>, <<"g", "o", "v", "t">>}

Queries ==
    [category : QueryCategories, state : QueryStates, course : QueryCourses,
     quota : QueryQuotas, air : EngineRanks]

\* engine.load_data(), the file holding table and the run raising at failAt
LoadData(table, failAt) ==
    /\ result.kind = "none"
    /\ ~data.present
    /\ LET r == load_data(data, cr_columns, table, failAt)
       IN  /\ data' = r.data
           /\ cr_columns' = r.cr_columns
           /\ loadStatus' = IF r.ok THEN "ok" ELSE "failed"
    /\ UNCHANGED <<result, est, rounds07, newVars, lateVars>>

\* a plausible slip: the filters are applied to self.data itself instead of
\* to a copy
PredictColleges_inplace(q, table, failAt) ==
    /\ result.kind = "none"
    /\ data.present
    /\ result' = PredictFrom(data, cr_columns, q)
    /\ data' = DataFrame(FilterRows(data.rows, q))
    /\ UNCHANGED <<cr_columns, loadStatus, est, rounds07, newVars, lateVars>>

\* engine.predict_colleges(q); table and failAt matter only when the call
\* has to load the data itself
PredictColleges(q, table, failAt) ==
    /\ result.kind = "none"
    /\ IF data.present
       THEN /\ result' = PredictFrom(data, cr_columns, q)
            /\ UNCHANGED <<data, cr_columns, loadStatus>>
       ELSE LET r == load_data(data, cr_columns, table, failAt)
            IN  /\ data' = r.data
                /\ cr_columns' = r.cr_columns
                /\ loadStatus' = IF r.ok THEN "ok" ELSE "failed"
                /\ result' = IF r.ok
                             THEN PredictFrom(r.data, r.cr_columns, q)
                             ELSE [NoResult EXCEPT !.kind = "error",
                                                   !.error = "Failed to load data",
                                                   !.query = q]
    /\ UNCHANGED <<est, rounds07, newVars, lateVars>>

\* the caller takes the result
ReturnResult ==
    /\ result.kind # "none"
    /\ result' = NoResult
    /\ UNCHANGED <<data, cr_columns, loadStatus, est, rounds07, newVars, lateVars>>

NoRounds == [called |-> FALSE]

\* the threads that share the engine
Threads == {1, 2}

\* a thread that has not called predict_colleges yet
IdleThread ==
    [pc |-> "idle", q |-> NoResult.query, res |-> NoResult,
     queried |-> FALSE, sawReady |-> FALSE]

NoFile == [read |-> FALSE, table |-> <<>>]

NoThreads ==
    [file |-> NoFile, nBuilds |-> 0, crReady |-> FALSE,
     thr |-> [t \in Threads |-> IdleThread]]

NoMainData == [present |-> FALSE, rows |-> <<>>, cleaned |-> {}]

NoApi == [started |-> FALSE, enhanced |-> FALSE, main_data |-> NoMainData, calls |-> <<>>]

NoPlan == [fn |-> "none"]

NoScore == [called |-> FALSE]

NoRanked == [called |-> FALSE]

NoDist == [called |-> FALSE]

\* the tasks that call is_rate_limited for one identifier
Tasks == {1, 2}

IdleTask == [pc |-> "idle", current_time |-> 0, current_requests |-> 0]

\* no key in Redis, the clock at 0, no call made
NoLimiter ==
    [requests |-> {}, expireAt |-> 0, now |-> 0, started |-> 0, answers |-> <<>>,
     task |-> [t \in Tasks |-> IdleTask]]

Init ==
    /\ data = None
    /\ cr_columns = <<>>
    /\ loadStatus = "never"
    /\ result = NoResult
    /\ est = NoEstimate
    /\ rounds07 = NoRounds
    /\ conc = NoThreads
    /\ api = NoApi
    /\ plan = NoPlan
    /\ scored = NoScore
    /\ ranked = NoRanked
    /\ dist = NoDist
    /\ limiter = NoLimiter

Next ==
    \/ \E table \in Tables, failAt \in FailPoints : LoadData(table, failAt)
    \/ \E q \in Queries :
           IF data.present
           THEN PredictColleges(q, <<>>, "none")
           ELSE \E table \in Tables, failAt \in FailPoints :
                    PredictColleges(q, table, failAt)
    \/ ReturnResult

Spec == Init /\ [][Next]_vars

(***************************************************************************)
(* The estimate on its own                                                 *)
(***************************************************************************)
NextEstimate == \E r1, r2 \in EstRanks, c \in EstClosingRanks : Estimate(r1, r2, c)

SpecEstimate == Init /\ [][NextEstimate]_vars

(***************************************************************************)
(* EnhancedPredictionSystem.predict_admission_rounds                       *)
(* (models/scripts/07_enhanced_prediction_system.py).  A college is a row  *)
(* of college_mappings: the cells closing_rank_round_1..7 (NaN when the    *)
(* column is absent or empty) and closing_rank_mean.  The estimated        *)
(* closing rank base * 0.95^(n-1) is kept exact as the fraction            *)
(* (base * 19^(n-1)) / 20^(n-1).                                           *)
(***************************************************************************)
MeasuredRounds == 7

SyntheticRounds == 5

TighteningNum == 19

TighteningDen == 20

One == PScale

College(round_cells, mean) == [closing_rank_round |-> round_cells, closing_rank_mean |-> mean]

NoRoundCells == [n \in 1..MeasuredRounds |-> NaN]

\* rounds_data from the closing_rank_round_N cells (lines 207-216)
MeasuredRoundsData(college, user_rank) ==
    LET present == SelectSeq([n \in 1..MeasuredRounds |-> n],
                             LAMBDA n : notna(college.closing_rank_round[n]))
    IN  [j \in DOMAIN present |->
            LET closing_rank == college.closing_rank_round[present[j]].v
            IN  [round |-> present[j],
                 probability |-> IF user_rank <= closing_rank THEN One ELSE 0,
                 closing_num |-> closing_rank, closing_den |-> 1]]

\* rounds_data estimated from closing_rank_mean (lines 219-229)
SyntheticRoundsData(college, user_rank) ==
    [n \in 1..SyntheticRounds |->
        LET num == college.closing_rank_mean.v * TighteningNum ^ (n - 1)
            den == TighteningDen ^ (n - 1)
        IN  [round |-> n,
             probability |-> IF user_rank * den <= num THEN One ELSE 0,
             closing_num |-> num, closing_den |-> den]]

predict_admission_rounds(college, user_rank) ==
    LET measured == MeasuredRoundsData(college, user_rank)
        rounds_data ==
            IF measured = <<>> /\ notna(college.closing_rank_mean)
            THEN SyntheticRoundsData(college, user_rank)
            ELSE measured
        \* the loop of lines 235-238: the first entry whose probability is
        \* strictly above every earlier one and above 0
        winners == {j \in DOMAIN rounds_data :
                       /\ rounds_data[j].probability > 0
                       /\ \A i \in DOMAIN rounds_data :
                              /\ rounds_data[i].probability <= rounds_data[j].probability
                              /\ i < j => rounds_data[i].probability < rounds_data[j].probability}
    IN  [most_likely_round |->
            IF winners = {} THEN 0 ELSE rounds_data[CHOOSE j \in winners : TRUE].round,
         round_probabilities |-> rounds_data]

\* colleges with measured rounds, with an aggregate only, and with nothing
Colleges07 ==
    {College([NoRoundCells EXCEPT ![1] = Num(9000), ![2] = Num(8000)], Num(8500)),
     College([NoRoundCells EXCEPT ![3] = Num(7000)], Num(7000)),
     College([NoRoundCells EXCEPT ![2] = Num(9500), ![7] = Num(9500)], NaN),
     College(NoRoundCells, NaN)}
    \cup {College(NoRoundCells, Num(m)) : m \in {8000, 9000, 10000, 12000}}

Ranks07 == {1, 6516, 6517, 7000, 7001, 7600, 8000, 8001, 8575, 9000, 9500, 9501, 10000, 12001}

PredictAdmissionRounds(college, user_rank) ==
    /\ ~rounds07.called
    /\ rounds07' = [called |-> TRUE, college |-> college, user_rank |-> user_rank,
                    out |-> predict_admission_rounds(college, user_rank)]
    /\ UNCHANGED <<engineVars, est, newVars, lateVars>>

NextRounds == \E college \in Colleges07, user_rank \in Ranks07 :
                  PredictAdmissionRounds(college, user_rank)

SpecRounds == Init /\ [][NextRounds]_vars

(***************************************************************************)
(* predict_colleges called from several threads on one engine.  Nothing in *)
(* the class serialises the calls, so the statements of load_data and the  *)
(* test "self.data is None" of different threads interleave.  A step is    *)
(* one statement (or one cleaning loop) of load_data, or the try block of  *)
(* predict_colleges.  conc.file is the CSV file, fixed by the first read;  *)
(* conc.nBuilds counts the executions of line 32; conc.crReady tells       *)
(* whether the closing-rank columns of the current self.data have been     *)
(* identified and converted (lines 38-45).                                 *)
(***************************************************************************)
ConcurrentQueries ==
    {q \in Queries : q.air = 25000 /\ q.state = <<>> /\ q.course = <<>> /\ q.quota = <<>>}

LoadFailed == [NoResult EXCEPT !.kind = "error", !.error = "Failed to load data"]

\* line 220: the thread enters predict_colleges and tests self.data
BeginPredict(t, q) ==
    /\ conc.thr[t].pc = "idle"
    /\ conc' = [conc EXCEPT !.thr[t].pc = IF data.present THEN "query" ELSE "read",
                            !.thr[t].q = q]
    /\ UNCHANGED <<engineVars, est, rounds07, api, plan, scored, lateVars>>

\* line 32: self.data = pd.read_csv(...), or the exception handler
LoadRead(t, table, fails) ==
    /\ conc.thr[t].pc = "read"
    /\ conc.file.read => table = conc.file.table
    /\ IF fails
       THEN /\ conc' = [conc EXCEPT !.thr[t].pc = "done",
                                    !.thr[t].res = [LoadFailed EXCEPT !.query = conc.thr[t].q]]
            /\ loadStatus' = "failed"
            /\ UNCHANGED data
       ELSE /\ data' = DataFrame(ReadCsv(table))
            /\ conc' = [conc EXCEPT !.thr[t].pc = "columns",
                                    !.file = [read |-> TRUE, table |-> table],
                                    !.nBuilds = @ + 1,
                                    !.crReady = FALSE]
            /\ UNCHANGED loadStatus
    /\ UNCHANGED <<cr_columns, result, est, rounds07, api, plan, scored, lateVars>>

\* lines 35-38: self.cr_columns = [...]
LoadColumns(t) ==
    /\ conc.thr[t].pc = "columns"
    /\ cr_columns' = CRNames
    /\ conc' = [conc EXCEPT !.thr[t].pc = "cr"]
    /\ UNCHANGED <<data, loadStatus, result, est, rounds07, api, plan, scored, lateVars>>

CleaningSteps == <<"cr", "bond", "fee", "stipend", "penalty">>

\* lines 43-58: one cleaning loop, applied to whatever self.data is now; the
\* last one is followed by "return True" and the try block of the caller
LoadClean(t, fails) ==
    /\ \E k \in DOMAIN CleaningSteps : conc.thr[t].pc = CleaningSteps[k]
    /\ LET pc == conc.thr[t].pc
           cleaned == CASE pc = "cr" -> CleanCR(data.rows)
                        [] pc = "bond" -> CleanBond(data.rows)
                        [] pc = "fee" -> CleanFee(data.rows)
                        [] pc = "stipend" -> CleanStipend(data.rows)
                        [] pc = "penalty" -> data.rows
           next == CASE pc = "cr" -> "bond"
                     [] pc = "bond" -> "fee"
                     [] pc = "fee" -> "stipend"
                     [] pc = "stipend" -> "penalty"
                     [] pc = "penalty" -> "query"
       IN  IF fails
           THEN /\ conc' = [conc EXCEPT !.thr[t].pc = "done",
                                        !.thr[t].res = [LoadFailed EXCEPT !.query = conc.thr[t].q]]
                /\ loadStatus' = "failed"
                /\ UNCHANGED data
           ELSE /\ data' = DataFrame(cleaned)
                /\ conc' = [conc EXCEPT !.thr[t].pc = next,
                                        !.crReady = IF pc = "cr" THEN TRUE ELSE @]
                /\ loadStatus' = IF pc = "penalty" THEN "ok" ELSE loadStatus
    /\ UNCHANGED <<cr_columns, result, est, rounds07, api, plan, scored, lateVars>>

\* lines 224-341: the try block, on self.data and self.cr_columns as they
\* are when the thread gets there
RunQuery(t) ==
    /\ conc.thr[t].pc = "query"
    /\ conc' = [conc EXCEPT !.thr[t].pc = "done",
                            !.thr[t].res = PredictFrom(data, cr_columns, conc.thr[t].q),
                            !.thr[t].queried = TRUE,
                            !.thr[t].sawReady = conc.crReady]
    /\ UNCHANGED <<engineVars, est, rounds07, api, plan, scored, lateVars>>

NextConcurrent ==
    \E t \in Threads :
        \/ \E q \in ConcurrentQueries : BeginPredict(t, q)
        \/ \E table \in Tables, fails \in BOOLEAN : LoadRead(t, table, fails)
        \/ LoadColumns(t)
        \/ \E fails \in BOOLEAN : LoadClean(t, fails)
        \/ RunQuery(t)

SpecConcurrent == Init /\ [][NextConcurrent]_vars

(***************************************************************************)
(* The API (backend/final_enhanced_api.py): startup_event and the handler  *)
(* of POST /predict.  The handler has no await, so a request is served in  *)
(* one step.  api.main_data is the module's main_data, with the names of   *)
(* the "_cleaned" columns startup_event managed to add; api.enhanced tells *)
(* whether enhanced_predictor is set; api.calls is the history of requests *)
(* and responses.  np.random.randint is a nondeterministic choice.         *)
(***************************************************************************)
MaxCalls == 2

\* values of np.random.randint(1000, 10000): 1000 <= n < 10000
RandomLow == 1000

RandomHigh == 10000

RandomDraws == {RandomLow, 5500, RandomHigh - 1}

ApiRanks == {25000, 120000}

\* a CollegeSearchRequest: four required strings and a rank in 1..200000
ApiRequests ==
    [category : {sGEN, sOBC}, state : {sAP}, course : {sMD},
     quota : {sGovt, sAIQ}, air : ApiRanks]

\* the "_cleaned" columns lines 129-136 add before the statement that
\* failed in load_data fails again on the same column of the same file
CleanedColumns(failAt) ==
    CASE failAt = "fee" -> {}
      [] failAt = "stipend" -> {"Fee"}
      [] failAt = "penalty" -> {"Fee", "Stipend"}
      [] failAt = "bond" -> {"Fee", "Stipend"}
      [] OTHER -> {"Fee", "Stipend", "Bond"}

\* to_numeric(..., errors='coerce').fillna(0) of lines 131-136
ApiCleaned(c) == IF c.k \in {"num", "txtnum"} THEN c.v ELSE 0

\* startup_event: a fresh engine loads the file; when that fails the file
\* is read again without the engine, and an unreadable file leaves
\* main_data None (the handler of line 169)
Startup(table, failAt) ==
    /\ ~api.started
    /\ LET r == load_data(None, <<>>, table, failAt)
       IN  /\ data' = r.data
           /\ cr_columns' = r.cr_columns
           /\ loadStatus' = IF r.ok THEN "ok" ELSE "failed"
           /\ api' = [api EXCEPT
                        !.started = TRUE,
                        !.enhanced = r.ok \/ failAt = "read",
                        !.main_data =
                            IF failAt = "read" THEN NoMainData
                            ELSE [present |-> TRUE,
                                  rows |-> IF r.ok THEN r.data.rows ELSE ReadCsv(table),
                                  cleaned |-> CleanedColumns(failAt)]]
    /\ UNCHANGED <<result, est, rounds07, conc, plan, scored, lateVars>>

\* column == value on a string column (NaN equals nothing)
Equals(cell, value) == ~cell.na /\ cell.s = value

\* lines 364-380
FallbackFilter(rows, request) ==
    SelectSeq(rows, LAMBDA row : /\ Equals(row.State, request.state)
                                 /\ Equals(row.Quota, request.quota)
                                 /\ Equals(row.Category, request.category)
                                 /\ Equals(row.Course, request.course))

\* get_historical_closing_ranks_fallback: every column with 'CR 202' in its
\* name whose cell float() accepts and finds positive
get_historical_closing_ranks_fallback(row) ==
    LET cells == SelectSeq(row.cr, LAMBDA c : c.k \in {"num", "txtnum"} /\ c.v > 0)
    IN  [j \in DOMAIN cells |-> cells[j].v]

RECURSIVE SeqSum(_)
SeqSum(xs) == IF xs = <<>> THEN 0 ELSE xs[1] + SeqSum(Tail(xs))

\* round(n / d) to the nearest integer, ties to the even one
RoundHalfEven(n, d) ==
    LET q == n \div d
        r == n % d
    IN  IF 2 * r > d \/ (2 * r = d /\ q % 2 = 1) THEN q + 1 ELSE q

\* calculate_admission_probability_fallback, in thousandths; the ratio
\* air / avg is air * k / sum for k ranks
calculate_admission_probability_fallback(air, historical_ranks) ==
    IF historical_ranks = <<>>
    THEN 100
    ELSE LET k == Len(historical_ranks)
             sum == SeqSum(historical_ranks)
         IN  IF air * k <= sum
             THEN Min(950, RoundHalfEven(1000 * sum - 200 * air * k, sum))
             ELSE IF air * k <= 2 * sum
             THEN Max(50, RoundHalfEven(1000 * sum - 400 * air * k, sum))
             ELSE 50

\* the score of lines 406-423 as a numerator over ScoreDen (admission_prob
\* in thousandths), and min(1.0, score)
ScoreDen == 35 * (10 ^ 6)

FallbackScore(admission_prob, fee, stipend, bond_years) ==
    LET fee_part == IF fee > 0 THEN Max(0, 10 ^ 6 - fee) * 7 ELSE 0
        stipend_part == IF stipend > 0 THEN Min(50000, stipend) * 70 ELSE 0
        bond_part == Max(0, 7 - bond_years) * 5 * (10 ^ 5)
    IN  Min(ScoreDen, admission_prob * 21000 + fee_part + stipend_part + bond_part)

\* row.get('<col>_cleaned', 0)
CleanedOr0(main_data, name, cell) ==
    IF name \in main_data.cleaned THEN ApiCleaned(cell) ELSE 0

\* lines 385-441: the prediction of one row; draw is the value
\* np.random.randint returns if the row has no historical rank
FallbackPrediction(main_data, row, air, draw) ==
    LET historical_ranks == get_historical_closing_ranks_fallback(row)
        admission_prob == calculate_admission_probability_fallback(air, historical_ranks)
    IN  [institute |-> row.Institute,
         admission_probability |-> Milli(admission_prob),
         predicted_closing_rank |->
             IF historical_ranks # <<>>
             THEN SeqSum(historical_ranks) \div Len(historical_ranks)
             ELSE air + draw,
         recommendation_score |->
             FallbackScore(admission_prob,
                           CleanedOr0(main_data, "Fee", row.Fee),
                           CleanedOr0(main_data, "Stipend", row.Stipend),
                           CleanedOr0(main_data, "Bond", row.Bond))]

\* the rows of the filtered table that need a random number
NeedsDraw(rows) ==
    SelectSeq(rows, LAMBDA row : get_historical_closing_ranks_fallback(row) = <<>>)

\* lines 360-456; draws[j] is the j-th value np.random.randint returns
FallbackResponse(main_data, request, draws) ==
    LET filtered_data == FallbackFilter(main_data.rows, request)
        DrawOf(i) == IF get_historical_closing_ranks_fallback(filtered_data[i]) = <<>>
                     THEN draws[Len(NeedsDraw(SubSeq(filtered_data, 1, i)))]
                     ELSE 0
        predictions == [i \in DOMAIN filtered_data |->
                           FallbackPrediction(main_data, filtered_data[i], request.air, DrawOf(i))]
        top == Truncate(SortByScore(predictions))
    IN  [kind |-> "fallback", total_colleges_found |-> Len(predictions), predictions |-> top]

\* lines 303-354: the response made from the engine's predictions
EnhancedResponse(res) ==
    [kind |-> "enhanced", total_colleges_found |-> Len(res.predictions),
     predictions |->
        [k \in DOMAIN res.predictions |->
            [institute |-> res.predictions[k].institute,
             admission_probability |-> res.predictions[k].admission_probability,
             predicted_closing_rank |-> res.predictions[k].predicted_closing_rank,
             recommendation_score |-> res.predictions[k].recommendation_score]]]

\* the random numbers a request may consume
DrawsFor(request) ==
    LET n == IF api.main_data.present
             THEN Len(NeedsDraw(FallbackFilter(api.main_data.rows, request)))
             ELSE 0
    IN  [1..n -> RandomDraws]

\* POST /predict
ApiPredict(request, draws) ==
    /\ api.started
    /\ Len(api.calls) < MaxCalls
    /\ LET res == PredictFrom(data, cr_columns, request)
           response ==
               IF ~api.main_data.present
               THEN [kind |-> "503", total_colleges_found |-> 0, predictions |-> <<>>]
               ELSE IF api.enhanced /\ res.kind # "error"
               THEN EnhancedResponse(res)
               ELSE FallbackResponse(api.main_data, request, draws)
       IN  api' = [api EXCEPT !.calls = Append(@, [request |-> request, response |-> response])]
    /\ UNCHANGED <<engineVars, est, rounds07, conc, plan, scored, lateVars>>

NextApi ==
    \/ \E table \in Tables, failAt \in FailPoints : Startup(table, failAt)
    \/ \E request \in ApiRequests : \E draws \in DrawsFor(request) : ApiPredict(request, draws)

SpecApi == Init /\ [][NextApi]_vars

(***************************************************************************)
(* AdvancedRoundPredictionEngine (models/scripts/round_prediction_engine). *)
(* Two computations are modelled, each applied once to bounded inputs:     *)
(* the confidence level of one round's history, and the cumulative         *)
(* probabilities, optimal round and confidence intervals of a set of       *)
(* per-round probabilities.  Probabilities are multiples of 0.01, so that  *)
(* the product of up to four complements is exact in units of 1/PScale.    *)
(***************************************************************************)
MaxObs == 3

MaxRound == 3

\* n hundredths, in units of 1/PScale
Percent(n) == n * (10 ^ 6)

HistoryYears == {2023, 2024}

HistoryRanks == {10000, 14000, 20000, 22000, 26000, 30000}

\* the rows of closing_ranks_long.csv for one combination and one round
Histories ==
    UNION { [1..n -> [year : HistoryYears, closing_rank : HistoryRanks]] : n \in 1..MaxObs }

\* floor(m * a / t) without forming m * a
FloorMulDiv(m, a, t) == m * (a \div t) + (m * (a % t)) \div t

\* n * sum(x^2) - sum(x)^2, as the sum of the squared differences of all
\* pairs; np.std(x)^2 (ddof = 0) is this number divided by n^2
RECURSIVE SquaredDifferences(_)
SquaredDifferences(xs) ==
    IF xs = <<>> THEN 0
    ELSE SeqSum([j \in 1..(Len(xs) - 1) |-> (xs[1] - xs[j + 1]) * (xs[1] - xs[j + 1])])
         + SquaredDifferences(Tail(xs))

\* cv < num / den, for cv = std_rank / mean_rank if mean_rank > 0 else 1:
\* std / mean = sqrt(D) / S with D the squared differences and S the sum
CvBelow(closing_ranks, num, den) ==
    LET S == SeqSum(closing_ranks)
        D == SquaredDifferences(closing_ranks)
    IN  IF S > 0
        THEN FloorMulDiv(den * den, D, num * num * S) < S
        ELSE den < num

\* the entry _analyze_historical_rounds makes for one round (lines 204-216)
RoundAnalysis(rows) ==
    [historical_closing_ranks |-> [i \in DOMAIN rows |-> rows[i].closing_rank],
     years_with_data |-> Len(rows)]

_calculate_prediction_confidence(round_data) ==
    LET years_of_data == round_data.years_with_data
        closing_ranks == round_data.historical_closing_ranks
    IN  IF years_of_data >= 2 /\ CvBelow(closing_ranks, 1, 5) THEN "High"
        ELSE IF years_of_data >= 1 /\ CvBelow(closing_ranks, 2, 5) THEN "Medium"
        ELSE "Low"

\* the confidence of one round of one combination
Confidence(rows) ==
    /\ plan = NoPlan
    /\ plan' = [fn |-> "confidence", rows |-> rows,
                level |-> _calculate_prediction_confidence(RoundAnalysis(rows))]
    /\ UNCHANGED <<engineVars, est, rounds07, conc, api, scored, lateVars>>

ProbGrid == {Percent(0), Percent(10), Percent(30), Percent(70), Percent(100)}

ConfidenceLevels == {"High", "Medium", "Low", "Unknown"}

\* round_probs as _calculate_round_probabilities builds it: one entry per
\* round that has history, inserted in ascending round number
RECURSIVE RoundProbsUpTo(_)
RoundProbsUpTo(n) ==
    IF n = 0 THEN {<<>>}
    ELSE LET earlier == RoundProbsUpTo(n - 1)
         IN  earlier \cup
             {Append(rp, [round |-> n, probability |-> prob, confidence |-> confidence]) :
                 rp \in earlier, prob \in ProbGrid, confidence \in ConfidenceLevels}

RoundProbs == RoundProbsUpTo(MaxRound)

\* a plausible slip: the probabilities are added up (and capped at 1)
RECURSIVE _calculate_cumulative_probabilities_sum(_, _)
_calculate_cumulative_probabilities_sum(round_probs, total_prob) ==
    IF round_probs = <<>> THEN <<>>
    ELSE LET next == Min(PScale, total_prob + round_probs[1].probability)
         IN  <<[round |-> round_probs[1].round, cumulative |-> next]>>
             \o _calculate_cumulative_probabilities_sum(Tail(round_probs), next)

\* the loop of lines 410-416 over the rounds in ascending number, from the
\* running value total_prob: 1 - (1 - total_prob) * (1 - round_prob)
RECURSIVE _calculate_cumulative_probabilities(_, _)
_calculate_cumulative_probabilities(round_probs, total_prob) ==
    IF round_probs = <<>> THEN <<>>
    ELSE LET next == PScale - ((PScale - total_prob) \div 100)
                              * ((PScale - round_probs[1].probability) \div Percent(1))
         IN  <<[round |-> round_probs[1].round, cumulative |-> next]>>
             \o _calculate_cumulative_probabilities(Tail(round_probs), next)

\* the loop of lines 425-430: the first entry, in insertion order, whose
\* probability is above 0 and above every earlier one; round 0 is None
_determine_optimal_round(round_probs) ==
    LET winners == {j \in DOMAIN round_probs :
                       /\ round_probs[j].probability > 0
                       /\ \A i \in DOMAIN round_probs :
                              /\ round_probs[i].probability <= round_probs[j].probability
                              /\ i < j => round_probs[i].probability < round_probs[j].probability}
    IN  IF winners = {}
        THEN [round |-> 0, probability |-> 0]
        ELSE LET b == CHOOSE j \in winners : TRUE
             IN  [round |-> round_probs[b].round, probability |-> round_probs[b].probability]

HighMargin == Percent(5)

MediumMargin == Percent(10)

LowMargin == Percent(15)

\* a plausible slip: the bounds are not clamped to [0, 1]
_calculate_confidence_intervals_unclamped(round_probs) ==
    [j \in DOMAIN round_probs |->
        LET prob == round_probs[j].probability
            confidence == round_probs[j].confidence
            margin == IF confidence = "High" THEN HighMargin
                      ELSE IF confidence = "Medium" THEN MediumMargin
                      ELSE LowMargin
        IN  [round |-> round_probs[j].round,
             lower_bound |-> prob - margin,
             upper_bound |-> prob + margin,
             margin_of_error |-> margin,
             confidence_level |-> confidence]]

_calculate_confidence_intervals(round_probs) ==
    [j \in DOMAIN round_probs |->
        LET prob == round_probs[j].probability
            confidence == round_probs[j].confidence
            margin == IF confidence = "High" THEN HighMargin
                      ELSE IF confidence = "Medium" THEN MediumMargin
                      ELSE LowMargin
        IN  [round |-> round_probs[j].round,
             lower_bound |-> Max(0, prob - margin),
             upper_bound |-> Min(PScale, prob + margin),
             margin_of_error |-> margin,
             confidence_level |-> confidence]]

\* the end of _calculate_round_probabilities (lines 357-363) and the call
\* of _calculate_confidence_intervals that follows it (lines 135-137)
AnalyzeRounds(round_probs) ==
    /\ plan = NoPlan
    /\ plan' = [fn |-> "rounds", round_probs |-> round_probs,
                cumulative_probabilities |-> _calculate_cumulative_probabilities(round_probs, 0),
                optimal_round |-> _determine_optimal_round(round_probs),
                confidence_intervals |-> _calculate_confidence_intervals(round_probs)]
    /\ UNCHANGED <<engineVars, est, rounds07, conc, api, scored, lateVars>>

(***************************************************************************)
(* _generate_counseling_strategy.  The strings of specific_recommendations *)
(* are not modelled: they are computed after the groups and the approach   *)
(* and change neither.                                                     *)
(***************************************************************************)
MaxStrategyRound == 5

StrategyGrid ==
    {Percent(0), Percent(10), Percent(30), Percent(40), Percent(70), Percent(100)}

\* the confidence of an entry is copied into the groups and decides nothing
StrategyConfidences == {"Medium"}

\* the round_N entries of round_probs, in ascending round number
RECURSIVE StrategyProbsUpTo(_)
StrategyProbsUpTo(n) ==
    IF n = 0 THEN {<<>>}
    ELSE LET earlier == StrategyProbsUpTo(n - 1)
         IN  earlier \cup
             {Append(rp, [round |-> n, probability |-> prob, confidence |-> confidence]) :
                 rp \in earlier, prob \in StrategyGrid, confidence \in StrategyConfidences}

StrategyProbs == StrategyProbsUpTo(MaxStrategyRound)

AggressiveApproach == "Aggressive - Focus on preferred choices"

BalancedApproach == "Balanced - Mix of preferred and safe choices"

ConservativeApproach == "Conservative - Focus on safety options"

InsufficientApproach == "Insufficient data for strategy recommendation"

AggressiveFrom == Percent(70)

BalancedFrom == Percent(40)

PriorityFloor == Percent(30)

BackupFloor == Percent(10)

PriorityCap == 3

BackupCap == 2

\* entry goes behind every element whose probability is not smaller
RECURSIVE InsertByProbability(_, _)
InsertByProbability(entry, sorted) ==
    IF sorted = <<>> THEN <<entry>>
    ELSE IF sorted[1].probability >= entry.probability
         THEN <<sorted[1]>> \o InsertByProbability(entry, Tail(sorted))
         ELSE <<entry>> \o sorted

\* round_data.sort(key=lambda x: x[1], reverse=True): the sort is stable,
\* entries of equal probability keep their order
RECURSIVE SortByProbability(_)
SortByProbability(round_data) ==
    IF round_data = <<>> THEN <<>>
    ELSE InsertByProbability(round_data[Len(round_data)],
                             SortByProbability(SubSeq(round_data, 1, Len(round_data) - 1)))

\* a plausible slip: the entries are taken in round order, without the sort
PriorityRoundsUnsorted(round_data, priority_threshold) ==
    LET qualifying == SelectSeq(round_data, LAMBDA e : e.probability >= priority_threshold)
    IN  SubSeq(qualifying, 1, Min(PriorityCap, Len(qualifying)))

\* the loop of lines 519-527: the first three of the sorted entries with
\* prob >= priority_threshold
PriorityRounds(round_data, priority_threshold) ==
    LET qualifying == SelectSeq(SortByProbability(round_data),
                                LAMBDA e : e.probability >= priority_threshold)
    IN  SubSeq(qualifying, 1, Min(PriorityCap, Len(qualifying)))

\* a plausible slip: the upper limit prob < priority_threshold is left out
BackupOptionsNoUpper(round_data, priority_threshold) ==
    LET qualifying == SelectSeq(SortByProbability(round_data),
                                LAMBDA e : BackupFloor <= e.probability)
    IN  SubSeq(qualifying, 1, Min(BackupCap, Len(qualifying)))

\* the loop of lines 530-538: the first two of the sorted entries with
\* 0.1 <= prob < priority_threshold
BackupOptions(round_data, priority_threshold) ==
    LET qualifying == SelectSeq(SortByProbability(round_data),
                                LAMBDA e : /\ BackupFloor <= e.probability
                                           /\ e.probability < priority_threshold)
    IN  SubSeq(qualifying, 1, Min(BackupCap, Len(qualifying)))

\* a plausible slip: the boundary values fall in the lower class
RecommendedApproachStrict(best_prob) ==
    IF best_prob > AggressiveFrom THEN AggressiveApproach
    ELSE IF best_prob > BalancedFrom THEN BalancedApproach
    ELSE ConservativeApproach

RecommendedApproach(best_prob) ==
    IF best_prob >= AggressiveFrom THEN AggressiveApproach
    ELSE IF best_prob >= BalancedFrom THEN BalancedApproach
    ELSE ConservativeApproach

\* a plausible slip: min in the place of max
PriorityThresholdMin(best_prob) == Min(PriorityFloor, best_prob \div 2)

\* max(0.3, best_prob * 0.5)
PriorityThreshold(best_prob) == Max(PriorityFloor, best_prob \div 2)

_generate_counseling_strategy(round_probs) ==
    LET round_data == SortByProbability(round_probs)
    IN  IF round_data = <<>>
        THEN [recommended_approach |-> InsufficientApproach,
              priority_rounds |-> <<>>,
              backup_options |-> <<>>]
        ELSE LET best_prob == round_data[1].probability
                 priority_threshold == PriorityThreshold(best_prob)
             IN  [recommended_approach |-> RecommendedApproach(best_prob),
                  priority_rounds |-> PriorityRounds(round_probs, priority_threshold),
                  backup_options |-> BackupOptions(round_probs, priority_threshold)]

GenerateStrategy(round_probs) ==
    /\ plan = NoPlan
    /\ plan' = [fn |-> "strategy", round_probs |-> round_probs,
                strategy |-> _generate_counseling_strategy(round_probs)]
    /\ UNCHANGED <<engineVars, est, rounds07, conc, api, scored, lateVars>>

\* one computation; the test on plan is made before the inputs are drawn
NextRoundEngine ==
    \/ plan = NoPlan /\ \E rows \in Histories : Confidence(rows)
    \/ plan = NoPlan /\ \E round_probs \in RoundProbs : AnalyzeRounds(round_probs)
    \/ plan = NoPlan /\ \E round_probs \in StrategyProbs : GenerateStrategy(round_probs)

SpecRoundEngine == Init /\ [][NextRoundEngine]_vars

(***************************************************************************)
(* calculate_enhanced_recommendation_score on its own, applied once to     *)
(* bounded inputs.  A field the row does not have behaves as its default:  *)
(* row.get('Quota', '') and row.get('State', '') give the empty string,    *)
(* row.get('Fee') and the like give None, for which pd.notna is False as   *)
(* it is for NaN.                                                          *)
(***************************************************************************)
ScoreProbabilities == {Milli(10), Milli(50), Milli(500), Milli(950)}

ScoreRanks == {1, 25000}

ScorePredictedRanks == {1, 25000, 30000, 200000}

ScoreRows ==
    [Quota : {Str(sGovt), Str(sPrivate), Str(sAIQ), Str(<<>>), NaStr},
     Fee : {Num(50000), Num(300000), Num(900000), NaN},
     Stipend : {Num(50000), Num(0), NaN},
     Bond : {Num(0), Num(2), Num(3), Num(6), NaN},
     State : {Str(sAP), Str(<<>>), NaStr}]

ScorePreferredStates == {<<>>, <<"a", "p">>}

Score(row, user_rank, admission_data, preferred_state) ==
    /\ ~scored.called
    /\ scored' = [called |-> TRUE, row |-> row, user_rank |-> user_rank,
                  admission_data |-> admission_data, preferred_state |-> preferred_state,
                  out |-> calculate_enhanced_recommendation_score(
                              row, user_rank, admission_data, preferred_state)]
    /\ UNCHANGED <<engineVars, est, rounds07, conc, api, plan, lateVars>>

NextScore ==
    /\ ~scored.called
    /\ \E row \in ScoreRows, user_rank \in ScoreRanks, preferred_state \in ScorePreferredStates,
          overall_probability \in ScoreProbabilities,
          predicted_closing_rank \in ScorePredictedRanks :
           Score(row, user_rank,
                 [overall_probability |-> overall_probability,
                  predicted_closing_rank |-> predicted_closing_rank],
                 preferred_state)

SpecScore == Init /\ [][NextScore]_vars

(***************************************************************************)
(* The end of predict_colleges on its own: the sort by recommendation      *)
(* score, the cut at max_predictions and the count, applied once to a list *)
(* of prediction entries long enough for the cut to act.  Of an entry only *)
(* its position in the loop (idx) and its rounded score are kept.          *)
(***************************************************************************)
MaxPredictions == 52

ScoreSteps == {0, 1, 3, 7, 10}

\* lists whose scores repeat, rise and fall along the list
PredictionLists ==
    {[i \in 1 .. n |-> [idx |-> i, recommendation_score |-> ((i * step) % 11) * Milli(90)]] :
        n \in 0 .. MaxPredictions, step \in ScoreSteps}

RankPredictions(predictions) ==
    /\ ~ranked.called
    /\ ranked' = [called |-> TRUE, predictions |-> predictions,
                  out |-> [predictions |-> TopPredictions(predictions),
                           total_colleges_found |-> Len(TopPredictions(predictions))]]
    /\ UNCHANGED <<engineVars, est, rounds07, newVars, dist, limiter>>

NextTop == ~ranked.called /\ \E predictions \in PredictionLists : RankPredictions(predictions)

SpecTop == Init /\ [][NextTop]_vars

(***************************************************************************)
(* The 07 system's admission probability: the statistics that              *)
(* create_college_mappings puts on a combination (groupby agg of mean, std *)
(* and count) and the branch predict_college_admission_probability takes   *)
(* on them.  The mean is the fraction sum / count; the standard deviation  *)
(* is kept as its square, the fraction ss / (count * count * (count - 1))  *)
(* with ss the sum of (count * x - sum)^2, pandas' std with ddof = 1; the  *)
(* sigmoid 1 / (1 + exp(z)) is kept as the terms of z.                     *)
(***************************************************************************)
MaxDistObs == 3

DistRanks == {50, 80, 120}

DistUserRanks == {1, 50, 80, 81, 200}

\* the closing ranks of one combination in ranks_df, none for a
\* combination that only features_df has
RECURSIVE DistHistoriesUpTo(_)
DistHistoriesUpTo(n) ==
    IF n = 0 THEN {<<>>}
    ELSE LET shorter == DistHistoriesUpTo(n - 1)
         IN  shorter \cup {Append(h, r) : h \in shorter, r \in DistRanks}

DistHistories == DistHistoriesUpTo(MaxDistObs)

RECURSIVE SumOfSquares(_, _, _)
SumOfSquares(closing_ranks, count, sum) ==
    IF closing_ranks = <<>> THEN 0
    ELSE (count * closing_ranks[1] - sum) * (count * closing_ranks[1] - sum)
             + SumOfSquares(Tail(closing_ranks), count, sum)

\* 'closing_rank': ['mean', ..., 'std', 'count'] of one group, and the
\* left merge that leaves NaN where ranks_df has no row; the std of a
\* single value is NaN
rank_stats(closing_ranks) ==
    LET count == Len(closing_ranks)
        sum == SeqSum(closing_ranks)
    IN  [closing_rank_count |-> count,
         mean_na |-> count = 0,
         mean_num |-> sum,
         mean_den |-> Max(count, 1),
         std_na |-> count < 2,
         std_sq_num |-> IF count < 2 THEN 0 ELSE SumOfSquares(closing_ranks, count, sum),
         std_sq_den |-> IF count < 2 THEN 1 ELSE count * count * (count - 1)]

\* lines 148-163.  college.get('closing_rank_std', mean * 0.1) finds the
\* key, NaN or not, so the default is never taken; NaN > 0 is False.
\* z = (user_rank - mean) / std is given by user_rank - mean = z_num / z_den
\* and std^2 = std_sq_num / std_sq_den.
distribution_probability(college, user_rank) ==
    IF college.mean_na
    THEN [branch |-> "heuristic", probability |-> PScale \div 2]
    ELSE IF ~college.std_na /\ college.std_sq_num > 0
    THEN [branch |-> "sigmoid", z_num |-> user_rank * college.mean_den - college.mean_num,
          z_den |-> college.mean_den,
          std_sq_num |-> college.std_sq_num, std_sq_den |-> college.std_sq_den]
    ELSE [branch |-> "binary",
          probability |-> IF user_rank * college.mean_den <= college.mean_num
                          THEN PScale ELSE 0]

EstimateFromDistribution(closing_ranks, user_rank) ==
    /\ ~dist.called
    /\ dist' = [called |-> TRUE, closing_ranks |-> closing_ranks, user_rank |-> user_rank,
                college |-> rank_stats(closing_ranks),
                out |-> distribution_probability(rank_stats(closing_ranks), user_rank)]
    /\ UNCHANGED <<engineVars, est, rounds07, newVars, ranked, limiter>>

NextDistribution ==
    /\ ~dist.called
    /\ \E closing_ranks \in DistHistories, user_rank \in DistUserRanks :
           EstimateFromDistribution(closing_ranks, user_rank)

SpecDistribution == Init /\ [][NextDistribution]_vars

(***************************************************************************)
(* RateLimiter.is_rate_limited for one identifier.  The sorted set of the  *)
(* key holds one member per distinct str(current_time), with the time as   *)
(* its score, so it is a set of times.  Every await of the coroutine is a  *)
(* step of its own: other calls run between two Redis commands.  The key   *)
(* is gone when its set is empty or its time to live has passed.           *)
(***************************************************************************)
\* limit and window of the calls (10 per 60 s for predictions in
\* ProductionConfig, 100 per 3600 s by default)
RateLimit == 2

RateWindow == 2

MaxTime == 3

MaxLimiterCalls == 4

\* EXPIRE on a key that does not exist sets nothing
KeyExpiry(requests, at) == IF requests = {} THEN 0 ELSE at

\* current_time = int(time.time()) and ZREMRANGEBYSCORE key 0 window_start
LimiterCall(t) ==
    /\ limiter.task[t].pc = "idle"
    /\ limiter.started < MaxLimiterCalls
    /\ LET window_start == limiter.now - RateWindow
           kept == {r \in limiter.requests : r > window_start}
       IN  limiter' = [limiter EXCEPT
                          !.requests = kept,
                          !.expireAt = KeyExpiry(kept, @),
                          !.started = @ + 1,
                          !.task[t] = [pc |-> "zcard", current_time |-> limiter.now,
                                       current_requests |-> 0]]
    /\ UNCHANGED <<engineVars, est, rounds07, newVars, ranked, dist>>

\* current_requests = ZCARD key, and the test against limit
LimiterCount(t) ==
    /\ limiter.task[t].pc = "zcard"
    /\ LET current_requests == Cardinality(limiter.requests)
       IN  limiter' = [limiter EXCEPT
                          !.task[t].current_requests = current_requests,
                          !.task[t].pc = IF current_requests >= RateLimit
                                         THEN "limited" ELSE "zadd"]
    /\ UNCHANGED <<engineVars, est, rounds07, newVars, ranked, dist>>

\* ZRANGE key 0 0 WITHSCORES and the answer True
LimiterRefuse(t) ==
    /\ limiter.task[t].pc = "limited"
    /\ LET oldest == IF limiter.requests = {} THEN limiter.task[t].current_time
                     ELSE CHOOSE r \in limiter.requests : \A o \in limiter.requests : r <= o
       IN  limiter' = [limiter EXCEPT
                          !.answers = Append(@, [time |-> limiter.task[t].current_time,
                                                 limited |-> TRUE,
                                                 reset_time |-> oldest + RateWindow]),
                          !.task[t] = IdleTask]
    /\ UNCHANGED <<engineVars, est, rounds07, newVars, ranked, dist>>

\* ZADD key {str(current_time): current_time}
LimiterAdd(t) ==
    /\ limiter.task[t].pc = "zadd"
    /\ limiter' = [limiter EXCEPT
                      !.requests = @ \cup {limiter.task[t].current_time},
                      !.task[t].pc = "expire"]
    /\ UNCHANGED <<engineVars, est, rounds07, newVars, ranked, dist>>

\* EXPIRE key window and the answer False
LimiterExpire(t) ==
    /\ limiter.task[t].pc = "expire"
    /\ limiter' = [limiter EXCEPT
                      !.expireAt = KeyExpiry(limiter.requests, limiter.now + RateWindow),
                      !.answers = Append(@, [time |-> limiter.task[t].current_time,
                                             limited |-> FALSE,
                                             reset_time |-> 0]),
                      !.task[t] = IdleTask]
    /\ UNCHANGED <<engineVars, est, rounds07, newVars, ranked, dist>>

\* a second passes; Redis drops the key when its time to live is over
Tick ==
    /\ limiter.now < MaxTime
    /\ LET expired == limiter.expireAt # 0 /\ limiter.now + 1 >= limiter.expireAt
       IN  limiter' = [limiter EXCEPT
                          !.now = @ + 1,
                          !.requests = IF expired THEN {} ELSE @,
                          !.expireAt = IF expired THEN 0 ELSE @]
    /\ UNCHANGED <<engineVars, est, rounds07, newVars, ranked, dist>>

NextLimiter ==
    \/ \E t \in Tasks : LimiterCall(t)
    \/ \E t \in Tasks : LimiterCount(t)
    \/ \E t \in Tasks : LimiterRefuse(t)
    \/ \E t \in Tasks : LimiterAdd(t)
    \/ \E t \in Tasks : LimiterExpire(t)
    \/ Tick

SpecLimiter == Init /\ [][NextLimiter]_vars

(***************************************************************************)
(* Properties of estimate (checked under SpecEstimate)                     *)
(***************************************************************************)
EstimateCalled == est # NoEstimate

\* C1: for every candidate rank >= 1 and every positive closing rank,
\* estimate returns a probability p with 0.01 <= p <= 0.95.
C1_EstimateWithinBounds ==
    EstimateCalled /\ est.r1 >= 1 /\ est.r2 >= 1 /\ est.c > 0
        => /\ Milli(10) <= est.p1 /\ est.p1 <= Milli(950)
           /\ Milli(10) <= est.p2 /\ est.p2 <= Milli(950)

\* both ends of the range are attained
C1_Witness ==
    /\ EstimateCalled
    /\ est.r1 = est.c /\ est.p1 = Milli(950)
    /\ Abs(est.r2 - est.c) > 40000 /\ est.p2 = Milli(10)

\* C3: for a fixed closing rank, estimate is non-increasing in the distance
\* |candidateRank - closingRank|, also across the boundaries at 10,000,
\* 20,000 and 40,000.
C3_EstimateMonotone ==
    EstimateCalled /\ Abs(est.r1 - est.c) <= Abs(est.r2 - est.c) => est.p1 >= est.p2

\* two ranks on the two sides of the boundary at diff = 10,000
C3_Witness ==
    /\ EstimateCalled
    /\ Abs(est.r1 - est.c) = 10000
    /\ Abs(est.r2 - est.c) = 10001
    /\ est.p1 > est.p2

EndpointsHold(user_rank, closing_rank, p) ==
    LET diff == Abs(user_rank - closing_rank)
    IN  /\ diff = 0 => p = Milli(950)
        /\ diff = 10000 => p = Milli(500) /\ HighSegment(diff) = MediumSegment(diff)
        /\ diff = 20000 => p = Milli(100) /\ MediumSegment(diff) = LowSegment(diff)
        /\ diff = 40000 => p = Milli(10) /\ LowSegment(diff) = Milli(10)
        /\ diff > 40000 => p = Milli(10)
        /\ user_rank = 25000 /\ closing_rank = 25000 => p = Milli(950)
        /\ user_rank = 25000 /\ closing_rank = 35000 => p = Milli(500)
        /\ user_rank = 25000 /\ closing_rank = 70000 => p = Milli(10)

MaxAir == 200000

ProbabilityInRange(p) == Milli(10) <= p /\ p <= Milli(950)

\* C2: every probability in a result (overall and per round) lies in
\* [0.01, 0.95]; no result carries exactly 0.0 or exactly 1.0.
C2_ProbabilitiesNeverCertain ==
    /\ \A k \in DOMAIN result.predictions :
           /\ ProbabilityInRange(result.predictions[k].admission_probability)
           /\ \A j \in DOMAIN result.predictions[k].round_probabilities :
                  ProbabilityInRange(result.predictions[k].round_probabilities[j].probability)
    /\ rounds07.called =>
           \A j \in DOMAIN rounds07.out.round_probabilities :
               ProbabilityInRange(rounds07.out.round_probabilities[j].probability)

\* the row of the loaded table a prediction entry was made from
RowOfInstitute(inst) ==
    data.rows[CHOOSE i \in DOMAIN data.rows : data.rows[i].Institute = inst]

\* the closing ranks a row holds: positive numbers in the well-formed
\* closing-rank columns
Observations(row) ==
    {row.cr[j].v : j \in {j \in DOMAIN row.cr :
                            /\ SplitColumn(CRNames[j]).ok
                            /\ row.cr[j].k = "num"
                            /\ row.cr[j].v > 0}}

\* the rows the query of the held result selects
FilteredRows == {data.rows[i] : i \in {i \in DOMAIN data.rows : RowMatches(data.rows[i], result.query)}}

\* C5: for an offer with at least one observation the overall probability
\* is the maximum of estimate over the offer's observations: no observation
\* gives more, and one gives exactly that.
C5_OverallIsMaximum ==
    result.kind = "ok" =>
        \A k \in DOMAIN result.predictions :
            LET e == result.predictions[k]
                obs == Observations(RowOfInstitute(e.institute))
                p(c) == calculate_round_probability(result.query.air, Num(c))
            IN  obs # {} =>
                    /\ \A c \in obs : e.overall_probability >= p(c)
                    /\ \E c \in obs : e.overall_probability = p(c)

\* an offer with three observations that give three different probabilities
C5_Witness ==
    /\ result.kind = "ok"
    /\ \E k \in DOMAIN result.predictions :
           LET e == result.predictions[k]
           IN  /\ Cardinality(Observations(RowOfInstitute(e.institute))) = 3
               /\ Cardinality({e.round_probabilities[j].probability :
                                  j \in DOMAIN e.round_probabilities}) = 3

\* C6: an offer without any observation gets the fallback instead of a
\* failure: overall probability exactly 0.05, predicted closing rank
\* exactly candidateRank + 5,000, no per-round probability, no best round.
C6_FallbackForNoHistory ==
    result.kind = "ok" =>
        \A row \in FilteredRows :
            Observations(row) = {} =>
                \E k \in DOMAIN result.predictions :
                    LET e == result.predictions[k]
                    IN  /\ e.institute = row.Institute
                        /\ e.overall_probability = Milli(50)
                        /\ e.admission_probability = Milli(50)
                        /\ e.predicted_closing_rank = result.query.air + 5000
                        /\ e.round_probabilities = <<>>
                        /\ e.most_likely_round = NoRound

\* a result that holds the entry of an offer without observations
C6_Witness ==
    /\ result.kind = "ok"
    /\ \E row \in FilteredRows :
           /\ Observations(row) = {}
           /\ \E k \in DOMAIN result.predictions :
                  /\ result.predictions[k].institute = row.Institute
                  /\ result.predictions[k].predicted_closing_rank = 30000

ValidRank(air) == 1 <= air /\ air <= MaxAir

\* C7: an offer that matches the filters but has sparse or no history is
\* kept in the returned list and is marked as low confidence.  Stated in
\* its weakest form, for a valid rank on fully loaded data: an offer without
\* any observation is in the list, and every listed offer with at most one
\* observation carries a confidence below the engine's own mark for "low"
\* (0.4); an offer left out for a probability under the cut-off is not
\* counted against the claim.
C7_SparseKeptAndLowConfidence ==
    loadStatus = "ok" /\ result.kind = "ok" /\ ValidRank(result.query.air) =>
        /\ \A row \in FilteredRows :
               Observations(row) = {} =>
                   \E k \in DOMAIN result.predictions :
                       result.predictions[k].institute = row.Institute
        /\ \A k \in DOMAIN result.predictions :
               Cardinality(Observations(RowOfInstitute(result.predictions[k].institute))) <= 1
                   => result.predictions[k].confidence_score < Milli(400)

\* C8: a candidate rank <= 0 or above the supported range is rejected
\* before any computation: for such a rank predict_colleges computes no
\* probability and no score and returns no predictions.
C8_InvalidRankRejected ==
    loadStatus = "ok" /\ result.kind # "none" /\ ~ValidRank(result.query.air)
        => /\ result.nProb = 0
           /\ result.nScore = 0
           /\ result.predictions = <<>>

\* C9: after a failed load and before a successful one, every
\* predict_colleges call returns an error and no predictions computed from
\* the partially loaded data.  Stated in its weakest form: such a call
\* returns no prediction.
C9_NoServiceAfterFailedLoad ==
    loadStatus = "failed" /\ result.kind # "none" => result.predictions = <<>>

\* C10: once the data is loaded, a predict_colleges call (whatever it
\* returns) leaves the data and the closing-rank columns as they were.
C10_IndexReadOnly ==
    [][data.present /\ result.kind = "none" /\ result'.kind # "none"
           => data' = data /\ cr_columns' = cr_columns]_vars

\* a call on loaded data returned fewer predictions than the table has
\* rows, and every row is still there
C10_Witness ==
    /\ loadStatus = "ok"
    /\ result.kind = "ok"
    /\ Len(data.rows) = MaxRows
    /\ Len(result.predictions) < Len(data.rows)

(***************************************************************************)
(* Properties of concurrent calls (checked under SpecConcurrent)           *)
(***************************************************************************)
\* C11: in every interleaving of concurrent predict_colleges calls on one
\* engine, the table is built (read from the file) at most once, and no
\* query runs on a table whose closing-rank columns are not yet identified
\* and converted.  Stated in its weakest form for the second part: no query
\* returns predictions made from such a table.
C11_BuiltOnceReadAfterBuild ==
    /\ conc.nBuilds <= 1
    /\ \A t \in Threads :
           conc.thr[t].queried /\ conc.thr[t].res.predictions # <<>> => conc.thr[t].sawReady

(***************************************************************************)
(* Properties of the API (checked under SpecApi)                           *)
(***************************************************************************)
\* C12: two predictions for identical inputs against the same loaded table
\* give identical outputs (probability, predicted closing rank, score and
\* order), whatever was called in between.
C12_SameInputSameOutput ==
    \A i, j \in DOMAIN api.calls :
        api.calls[i].request = api.calls[j].request
            => api.calls[i].response = api.calls[j].response

(***************************************************************************)
(* Further properties of the engine's results (checked under Spec)         *)
(***************************************************************************)
\* the four filter columns of the loaded table hold text
TextColumns ==
    \A column \in {"Category", "State", "Course", "Quota"} : ~IsFloatColumn(data.rows, column)

\* C13: a query whose filters match no offer returns an empty prediction
\* list, an explanatory message and a count of 0, never an error result.
\* Stated for a valid rank and a fully loaded table that holds offers and
\* whose filter columns hold text.
C13_NoMatchGivesEmptyResult ==
    /\ loadStatus = "ok"
    /\ result.kind # "none"
    /\ ValidRank(result.query.air)
    /\ data.rows # <<>>
    /\ TextColumns
    /\ FilterRows(data.rows, result.query) = <<>>
    => /\ result.kind = "empty"
       /\ result.predictions = <<>>
       /\ result.total_colleges_found = 0
       /\ result.message # ""

(***************************************************************************)
(* Properties of the round engine (checked under SpecRoundEngine)          *)
(***************************************************************************)
\* the number of distinct years the history covers
DistinctYears(rows) == Cardinality({rows[i].year : i \in DOMAIN rows})

RanksOf(rows) == [i \in DOMAIN rows |-> rows[i].closing_rank]

\* C14: the confidence level is High exactly when the history covers at
\* least 2 distinct years and std/mean < 0.2, otherwise Medium exactly when
\* it covers at least 1 year and std/mean < 0.4, otherwise Low; the count
\* is the number of distinct years, not the number of observations.
C14_ConfidenceFromDistinctYears ==
    plan.fn = "confidence" =>
        plan.level =
            IF DistinctYears(plan.rows) >= 2 /\ CvBelow(RanksOf(plan.rows), 1, 5) THEN "High"
            ELSE IF DistinctYears(plan.rows) >= 1 /\ CvBelow(RanksOf(plan.rows), 2, 5) THEN "Medium"
            ELSE "Low"

MarginOf(level) ==
    IF level = "High" THEN Percent(5) ELSE IF level = "Medium" THEN Percent(10) ELSE Percent(15)

\* C15: the interval of a point probability p has margin 0.05 for High,
\* 0.10 for Medium, 0.15 for Low and for any other level, lower bound
\* max(0, p - margin) and upper bound min(1, p + margin); so
\* 0 <= lower <= p <= upper <= 1.
C15_IntervalFromConfidence ==
    plan.fn = "rounds" =>
        /\ DOMAIN plan.confidence_intervals = DOMAIN plan.round_probs
        /\ \A j \in DOMAIN plan.round_probs :
               LET ci == plan.confidence_intervals[j]
                   prob == plan.round_probs[j].probability
                   margin == MarginOf(plan.round_probs[j].confidence)
               IN  /\ ci.round = plan.round_probs[j].round
                   /\ ci.margin_of_error = margin
                   /\ ci.lower_bound = Max(0, prob - margin)
                   /\ ci.upper_bound = Min(PScale, prob + margin)
                   /\ 0 <= ci.lower_bound /\ ci.lower_bound <= prob
                   /\ prob <= ci.upper_bound /\ ci.upper_bound <= PScale

\* both clamps act, and all four levels occur
C15_Witness ==
    /\ plan.fn = "rounds"
    /\ \E i, j, k \in DOMAIN plan.round_probs :
           /\ plan.round_probs[i].probability = 0
           /\ plan.round_probs[i].confidence = "Unknown"
           /\ plan.confidence_intervals[i].lower_bound = 0
           /\ plan.confidence_intervals[i].upper_bound = Percent(15)
           /\ plan.round_probs[j].probability = PScale
           /\ plan.round_probs[j].confidence = "High"
           /\ plan.confidence_intervals[j].upper_bound = PScale
           /\ plan.confidence_intervals[j].lower_bound = Percent(95)
           /\ plan.round_probs[k].confidence = "Medium"
           /\ plan.confidence_intervals[k].lower_bound = Percent(20)

\* the product of (1 - p_i) over the first k entries, as a whole number of
\* 1/100^k
RECURSIVE ComplementProduct(_, _)
ComplementProduct(round_probs, k) ==
    IF k = 0 THEN 1
    ELSE ComplementProduct(round_probs, k - 1)
         * ((PScale - round_probs[k].probability) \div Percent(1))

C17_OptimalRoundIsEarliestMaximum ==
    rounds07.called /\ rounds07.out.round_probabilities # <<>> =>
        LET rp == rounds07.out.round_probabilities
        IN  \E j \in DOMAIN rp :
                /\ rp[j].round = rounds07.out.most_likely_round
                /\ \A i \in DOMAIN rp :
                       /\ rp[i].probability <= rp[j].probability
                       /\ rp[i].probability = rp[j].probability => rp[j].round <= rp[i].round

\* the college has a closing rank for at least one round
HasMeasuredRounds(college) ==
    \E n \in DOMAIN college.closing_rank_round : notna(college.closing_rank_round[n])

\* C18: round estimates are synthesized only for an offer without per-round
\* data, and every synthesized estimate carries synthetic = true, so that a
\* caller can tell it from a measured one.
C18_SynthesizedFlagged ==
    rounds07.called =>
        LET rp == rounds07.out.round_probabilities
        IN  /\ HasMeasuredRounds(rounds07.college) =>
                   \A j \in DOMAIN rp :
                       /\ rp[j].closing_den = 1
                       /\ rp[j].closing_num = rounds07.college.closing_rank_round[rp[j].round].v
            /\ ~HasMeasuredRounds(rounds07.college) =>
                   \A j \in DOMAIN rp :
                       "synthetic" \in DOMAIN rp[j] /\ rp[j].synthetic

(***************************************************************************)
(* Properties of the recommendation score (checked under SpecScore)        *)
(***************************************************************************)
\* C19: the recommendation score is in [0, 1] for every combination of
\* admission probability, candidate rank, predicted closing rank, quota,
\* fee, stipend, bond years and state preference.
C19_ScoreWithinUnitInterval ==
    scored.called /\ ~scored.out.raised =>
        /\ 0 <= scored.out.score
        /\ scored.out.score <= PScale
        /\ scored.out.above => scored.out.score < PScale

\* only the bond penalty applies: 0.5 * 0.01 - 0.025 is clamped to 0
C19_Witness ==
    /\ scored.called
    /\ ~scored.out.raised
    /\ scored.admission_data.overall_probability = Milli(10)
    /\ scored.user_rank > scored.admission_data.predicted_closing_rank
    /\ scored.row.Quota = Str(sAIQ)
    /\ scored.row.Fee = Num(900000)
    /\ scored.row.Stipend = Num(0)
    /\ scored.row.Bond = Num(6)
    /\ scored.row.State = Str(sAP)
    /\ scored.preferred_state = <<>>
    /\ scored.out.score = 0

\* a field of the row is absent or null
MissingField(row) ==
    \/ row.Quota.na \/ row.Quota.s = <<>>
    \/ isna(row.Fee) \/ isna(row.Stipend) \/ isna(row.Bond)
    \/ row.State.na \/ row.State.s = <<>>

\* C20: the score never fails because a field (quota, fee, stipend, bond
\* years, state, preferred state) is absent or null: a score is returned.
C20_MissingFieldNeverFails ==
    scored.called /\ (MissingField(scored.row) \/ scored.preferred_state = <<>>)
        => ~scored.out.raised

(***************************************************************************)
(* Properties of the counseling strategy (checked under SpecRoundEngine)   *)
(***************************************************************************)
StrategyMade == plan.fn = "strategy"

Entries(seq) == {seq[j] : j \in DOMAIN seq}

\* the best probability of a non-empty input
BestP(round_probs) ==
    CHOOSE p \in {e.probability : e \in Entries(round_probs)} :
        \A e \in Entries(round_probs) : e.probability <= p

\* max(0.3, bestP * 0.5), written from the statement of the claims
ClaimedThreshold(round_probs) ==
    IF BestP(round_probs) \div 2 > Percent(30) THEN BestP(round_probs) \div 2 ELSE Percent(30)

InGroup(e, group) == \E j \in DOMAIN group : group[j].round = e.round

C23_ApproachFromBestP ==
    StrategyMade /\ plan.round_probs # <<>> =>
        LET bestP == BestP(plan.round_probs)
            approach == plan.strategy.recommended_approach
        IN  /\ bestP >= Percent(70) => approach = AggressiveApproach
            /\ Percent(40) <= bestP /\ bestP < Percent(70) => approach = BalancedApproach
            /\ bestP < Percent(40) => approach = ConservativeApproach

\* the boundary 0.4 is rated Balanced
C23_Witness ==
    /\ StrategyMade
    /\ plan.round_probs # <<>>
    /\ BestP(plan.round_probs) = Percent(40)
    /\ plan.strategy.recommended_approach = BalancedApproach

\* C24: for every input, the empty one and the all-zero one included, the
\* approach is one of Aggressive, Balanced and Conservative.
C24_ApproachIsOneOfThree ==
    StrategyMade =>
        plan.strategy.recommended_approach
            \in {AggressiveApproach, BalancedApproach, ConservativeApproach}

AllowedIn(s) ==
    {i \in DOMAIN limiter.answers :
        /\ ~limiter.answers[i].limited
        /\ s <= limiter.answers[i].time
        /\ limiter.answers[i].time < s + RateWindow}

\* C30: in every sequence and interleaving of is_rate_limited calls for
\* one identifier, several within one second included, the number of calls
\* answered 'not limited' within any sliding window of window seconds
\* never exceeds limit.
C30_AtMostLimitPerWindow ==
    \A s \in 0 .. MaxTime : Cardinality(AllowedIn(s)) <= RateLimit

(***************************************************************************)
(* Properties of the 07 admission probability (checked under               *)
(* SpecDistribution)                                                       *)
(***************************************************************************)
\* C26: with exactly one historical observation the standard deviation
\* used is 10% of the mean and the probability is the logistic transform of
\* (candidateRank - mean) / (0.1 * mean), not the binary 1.0 / 0.0 outcome.
C26_SingleObservationUsesTenthOfMean ==
    dist.called /\ Len(dist.closing_ranks) = 1 =>
        /\ dist.out.branch = "sigmoid"
        /\ dist.out.z_num = (dist.user_rank - dist.closing_ranks[1]) * dist.out.z_den
        /\ 100 * dist.out.std_sq_num
               = dist.closing_ranks[1] * dist.closing_ranks[1] * dist.out.std_sq_den

(***************************************************************************)
(* Further properties of estimate (checked under SpecEstimate)             *)
(***************************************************************************)
\* C27: estimate is symmetric around the closing rank: estimate(c - d, c) =
\* estimate(c + d, c) whenever c - d >= 1; a candidate better than the
\* closing rank by more than 40,000 gets 0.01, as one worse by that much.
C27_EstimateSymmetric ==
    EstimateCalled /\ 1 <= est.r1 /\ est.r1 <= est.c /\ est.c - est.r1 = est.r2 - est.c =>
        /\ est.p1 = est.p2
        /\ est.c - est.r1 > 40000 => est.p1 = Milli(10) /\ est.p2 = Milli(10)

\* 45,000 better and 45,000 worse than the closing rank 70,000
C27_Witness ==
    /\ EstimateCalled
    /\ est.r1 < est.c
    /\ est.c - est.r1 = est.r2 - est.c
    /\ est.c - est.r1 > 40000
    /\ est.p1 = Milli(10)
    /\ est.p2 = Milli(10)

(***************************************************************************)
(* Further properties of predict_colleges (checked under Spec)             *)
(***************************************************************************)
\* C28: every returned prediction has overall probability >= 0.05: an
\* offer with history whose best per-round probability is below 0.05 is
\* left out, while an offer without any history (fallback 0.05) is kept.
C28_CutOffKeepsFallback ==
    result.kind = "ok" =>
        /\ \A k \in DOMAIN result.predictions :
               result.predictions[k].overall_probability >= Milli(50)
        /\ \A row \in FilteredRows :
               LET obs == Observations(row)
                   p(c) == calculate_round_probability(result.query.air, Num(c))
                   listed == \E k \in DOMAIN result.predictions :
                                 result.predictions[k].institute = row.Institute
               IN  /\ obs # {} /\ (\A c \in obs : p(c) < Milli(50)) => ~listed
                   /\ obs = {} =>
                          \E k \in DOMAIN result.predictions :
                              /\ result.predictions[k].institute = row.Institute
                              /\ result.predictions[k].overall_probability = Milli(50)

\* one result in which an offer with history is left out and an offer
\* without history is listed
C28_Witness ==
    /\ result.kind = "ok"
    /\ \E row \in FilteredRows :
           /\ Observations(row) # {}
           /\ \A k \in DOMAIN result.predictions :
                  result.predictions[k].institute # row.Institute
    /\ \E row \in FilteredRows :
           /\ Observations(row) = {}
           /\ \E k \in DOMAIN result.predictions :
                  /\ result.predictions[k].institute = row.Institute
                  /\ result.predictions[k].overall_probability = Milli(50)

====
